---- MODULE Spec2Model ----
(***************************************************************************)
(* wheedle (src/src/lib.rs): sparse interaction matrices, an implicit      *)
(* factorization model trained by lock-free parallel SGD, prediction and   *)
(* the mean-reciprocal-rank evaluator.                                     *)
(*                                                                         *)
(* Conventions.  User and item ids are 0-based as in the source; TLA+      *)
(* sequences are 1-based, so row r of a Vec or table is element r + 1.     *)
(* Option<T> is a sequence of length 0 (None) or 1 (Some).  The f32 values *)
(* of the evaluator are modelled by integers and exact fractions           *)
(* <<numerator, denominator>>, 0.0 / 0.0 being the value NaN.  The f32     *)
(* losses of fit are kept by class: "zero", "neg" (finite, below zero),    *)
(* "ninf" (negative infinity) and "nan".  latent_dim is 1, so an embedding *)
(* row is one number and simd_dot is a product.  A panic ends the run:     *)
(* crashed becomes TRUE and no operation is enabled afterwards.            *)
(***************************************************************************)
EXTENDS Integers, Sequences, FiniteSets, TLC

VARIABLES
    mat,        \* InteractionMatrix under construction (InteractionMatrix::add)
    lastAdd,    \* Option<[user, item]>: arguments of the latest add call
    test,       \* InteractionMatrix handed to mrr_score as test
    train,      \* InteractionMatrix handed to mrr_score as train
    mrrResult,  \* Option<outcome of mrr_score>
    hyper,      \* Hyperparameters (minibatch_size)
    model,      \* ImplicitFactorizationModel.model : Option<ModelData>
    written,    \* optimizer.step has written the tables of the model
    call,       \* Option<the fit call in progress>
    workers,    \* partition_idx -> state of that partition's closure
    fitResult,  \* Option<outcome of the fit call that has just returned>
    firstCall,  \* Option<user ids, item ids of the first fit call> (history)
    predictRes, \* Option<latest predict call and its outcome>
    crashed     \* a panic has unwound the program

vars == <<mat, lastAdd, test, train, mrrResult, hyper, model, written, call,
          workers, fitResult, firstCall, predictRes, crashed>>

matVars == <<mat, lastAdd>>
mrrVars == <<test, train, mrrResult>>
fitVars == <<hyper, model, written, call, workers, fitResult, firstCall,
            predictRes>>

-----------------------------------------------------------------------------
(* Bounds of the model.                                                    *)

\* users and items of the matrix built by add
NumUsers == 2
NumItems == 3
\* users and items of the evaluator's matrices and model
EvalUsers == 2
EvalItems == 2
\* interactions that are split into the evaluator's test and train data
MaxInteractions == 2

-----------------------------------------------------------------------------
(* Option and small helpers.                                               *)

None == <<>>
Some(x) == <<x>>
IsSome(o) == Len(o) = 1
Get(o) == o[1]

Min(a, b) == IF a <= b THEN a ELSE b

SetMax(S) == CHOOSE x \in S : \A y \in S : y <= x

Range(s) == {s[i] : i \in 1..Len(s)}

\* all sequences over S of length at most n
SeqsUpTo(S, n) == UNION {[1..k -> S] : k \in 0..n}

-----------------------------------------------------------------------------
(* InteractionMatrix.                                                      *)

\* InteractionMatrix::new
NewMatrix(num_users, num_items) ==
    [num_users |-> num_users, num_items |-> num_items,
     rows |-> [r \in 1..num_users |-> <<>>]]

\* slice::binary_search as called by add: <<TRUE, idx>> is Ok(idx), the 0-based
\* position of the item; <<FALSE, idx>> is Err(idx), where it can be inserted.
\* The standard library's loop: a window of `size` elements from `base` is
\* halved until one element is left, which is then compared with the item.
RECURSIVE BinarySearchLoop(_, _, _, _)
BinarySearchLoop(row, item, base, size) ==
    IF size > 1
    THEN LET half == size \div 2
             mid  == base + half
         IN  BinarySearchLoop(row, item,
                              IF row[mid + 1] > item THEN base ELSE mid,
                              size - half)
    ELSE IF row[base + 1] = item THEN <<TRUE, base>>
         ELSE <<FALSE, base + (IF row[base + 1] < item THEN 1 ELSE 0)>>

binary_search(row, item) ==
    IF Len(row) = 0 THEN <<FALSE, 0>>
    ELSE BinarySearchLoop(row, item, 0, Len(row))

\* Vec::insert(idx, item), idx 0-based
VecInsert(row, idx, item) ==
    SubSeq(row, 1, idx) \o <<item>> \o SubSeq(row, idx + 1, Len(row))

\* a plausible slip: the result of the search is ignored and the item is
\* inserted wherever the search stopped, found or not
AddRowAlwaysInsert(row, item) ==
    VecInsert(row, binary_search(row, item)[2], item)

\* the row of add's user after add: inserted only on Err(idx)
AddRow(row, item) ==
    LET found == binary_search(row, item)
    IN  IF found[1] THEN row ELSE VecInsert(row, found[2], item)

\* InteractionMatrix::add: self.rows[user_id] panics (index out of bounds) when
\* the matrix has no such row; item_id is not compared with num_items
AddOp(m, user_id, item_id) ==
    IF user_id >= Len(m.rows) THEN [kind |-> "panic"]
    ELSE [kind |-> "ok",
          matrix |-> [m EXCEPT !.rows[user_id + 1] = AddRow(@, item_id)]]

\* the loop of from_interactions: add for every interaction in order, the
\* first panic ends it
RECURSIVE AddAll(_, _)
AddAll(m, interactions) ==
    IF interactions = <<>> THEN [kind |-> "ok", matrix |-> m]
    ELSE LET r == AddOp(m, Head(interactions).user_id, Head(interactions).item_id)
         IN  IF r.kind = "panic" THEN r
             ELSE AddAll(r.matrix, Tail(interactions))

\* InteractionMatrix::from_interactions
from_interactions(num_users, num_items, interactions) ==
    AddAll(NewMatrix(num_users, num_items), interactions)

-----------------------------------------------------------------------------
(* Values of the variables a specification does not use.                   *)

IdleMat == mat = NewMatrix(0, 0) /\ lastAdd = None
IdleMrr == test = NewMatrix(0, 0) /\ train = NewMatrix(0, 0) /\ mrrResult = None
IdleFitWith(m) ==
    /\ hyper = [minibatch_size |-> 0]
    /\ model = m
    /\ written = FALSE
    /\ call = None
    /\ workers = <<>>
    /\ fitResult = None
    /\ firstCall = None
    /\ predictRes = None

-----------------------------------------------------------------------------
(* Specification of the matrix under add.                                  *)

InitMatrix ==
    /\ mat = NewMatrix(NumUsers, NumItems)
    /\ lastAdd = None
    /\ IdleMrr /\ IdleFitWith(None)
    /\ crashed = FALSE

\* add(user_id, item_id): self.rows[user_id] panics when user_id is not a row
Add(user_id, item_id) ==
    /\ ~crashed
    /\ lastAdd' = Some([user |-> user_id, item |-> item_id])
    /\ LET r == AddOp(mat, user_id, item_id)
       IN  IF r.kind = "ok"
           THEN mat' = r.matrix /\ crashed' = FALSE
           ELSE mat' = mat /\ crashed' = TRUE
    /\ UNCHANGED <<mrrVars, fitVars>>

NextMatrix == \E u \in 0..NumUsers, i \in 0..(NumItems - 1) : Add(u, i)

SpecMatrix == InitMatrix /\ [][NextMatrix]_vars

StrictlyAscending(row) == \A i \in 1..(Len(row) - 1) : row[i] < row[i + 1]

\* C1: after any sequence of add calls on new(num_users, num_items) every row
\* is strictly ascending (sorted, no duplicate), and add is idempotent: calling
\* add again with the arguments of the call just made leaves every row as that
\* call left it.
C1_SortedAndIdempotent ==
    /\ \A r \in 1..Len(mat.rows) : StrictlyAscending(mat.rows[r])
    /\ (IsSome(lastAdd) /\ ~crashed) =>
           /\ Get(lastAdd).item \in Range(mat.rows[Get(lastAdd).user + 1])
           /\ AddOp(mat, Get(lastAdd).user, Get(lastAdd).item)
                  = [kind |-> "ok", matrix |-> mat]

\* the latest add put an item between two items already in the row
C1_Witness ==
    /\ IsSome(lastAdd) /\ ~crashed
    /\ Get(lastAdd).item = 1
    /\ mat.rows[Get(lastAdd).user + 1] = <<0, 1, 2>>

-----------------------------------------------------------------------------
(* Exact fractions <<n, d>> with d > 0, standing for f32 values.           *)

Abs(x) == IF x < 0 THEN -x ELSE x

RECURSIVE GCD(_, _)
GCD(a, b) == IF b = 0 THEN a ELSE GCD(b, a % b)

Frac(n, d) ==
    LET g == GCD(Abs(n), d) IN <<n \div g, d \div g>>

FracAdd(a, b) == Frac(a[1] * b[2] + b[1] * a[2], a[2] * b[2])

\* a / (k as f32), k > 0
FracDivInt(a, k) == Frac(a[1], a[2] * k)

\* iter().sum::<f32>() over a sequence of fractions, left to right from 0.0
RECURSIVE FracSum(_)
FracSum(s) ==
    IF s = <<>> THEN <<0, 1>>
    ELSE FracAdd(FracSum(SubSeq(s, 1, Len(s) - 1)), s[Len(s)])

\* 0.0 / 0.0: the quotient with numerator and denominator 0
NaN == <<0, 0>>

-----------------------------------------------------------------------------
(* ModelData and predict.                                                  *)

\* values a table entry takes in the evaluator's specifications
EmbVals == {0, 1}

\* ModelData as build_model lays it out: user_embedding has num_users rows,
\* item_embedding and item_biases have num_items rows
ModelData(num_users, num_items, ue, ie, ib) ==
    [num_users |-> num_users, num_items |-> num_items,
     user_embedding |-> ue, item_embedding |-> ie, item_biases |-> ib]

\* every ModelData build_model(num_users, num_items, 1) can return when
\* embedding_init draws its entries from vals
BuildModels(num_users, num_items, vals) ==
    {ModelData(num_users, num_items, ue, ie, ib) :
        ue \in [1..num_users -> vals],
        ie \in [1..num_items -> vals],
        ib \in [1..num_items -> vals]}

\* a plausible slip: the scores are taken over the rows of the user table
PredictOverUsers(m, user_id) ==
    IF m = None THEN [kind |-> "err", error |-> "Model must be fitted first."]
    ELSE IF user_id >= Len(Get(m).user_embedding) THEN [kind |-> "panic"]
    ELSE [kind |-> "ok",
          scores |-> [i \in 1..Len(Get(m).user_embedding) |->
                         Get(m).user_embedding[user_id + 1]]]

\* ImplicitFactorizationModel::predict.  subview(Axis(0), user_id) panics when
\* the user table has no such row; zip stops at the shorter of the item tables.
Predict(m, user_id) ==
    IF m = None THEN [kind |-> "err", error |-> "Model must be fitted first."]
    ELSE IF user_id >= Len(Get(m).user_embedding) THEN [kind |-> "panic"]
    ELSE [kind |-> "ok",
          scores |-> [i \in 1..Min(Len(Get(m).item_embedding),
                                   Len(Get(m).item_biases)) |->
                         Get(m).item_biases[i]
                         + Get(m).user_embedding[user_id + 1]
                           * Get(m).item_embedding[i]]]

-----------------------------------------------------------------------------
(* mrr_score.                                                              *)

\* stands for std::f32::MIN: below every score the tables of the model yield
F32_MIN == -1000

\* a plausible slip: the train items keep their scores
SuppressNothing(predictions, train_row) == predictions

\* for &train_idx in train_row { predictions[train_idx] = MIN }
RECURSIVE Suppress(_, _)
Suppress(predictions, train_row) ==
    IF train_row = <<>> THEN predictions
    ELSE Suppress([predictions EXCEPT ![Head(train_row) + 1] = F32_MIN],
                  Tail(train_row))

\* the loop over predictions: predictions[1..n] have been compared with every
\* test score, each rank counting the predictions >= its score
RECURSIVE Ranks(_, _, _)
Ranks(predictions, test_scores, n) ==
    IF n = 0 THEN [t \in 1..Len(test_scores) |-> 0]
    ELSE LET before == Ranks(predictions, test_scores, n - 1)
         IN  [t \in 1..Len(test_scores) |->
                 IF predictions[n] >= test_scores[t]
                 THEN before[t] + 1 ELSE before[t]]

\* the closure of filter_map for one user: None when the test row is empty,
\* "panic" when predict fails or an item id is not an index of the predictions
UserMrr(m, user_id, test_row, train_row) ==
    IF Len(test_row) = 0 THEN [kind |-> "none"]
    ELSE LET p == Predict(m, user_id)
         IN  IF p.kind # "ok" THEN [kind |-> "panic"]
             ELSE IF \E i \in Range(train_row) \cup Range(test_row) :
                         i >= Len(p.scores)
                  THEN [kind |-> "panic"]
                  ELSE LET predictions == Suppress(p.scores, train_row)
                           test_scores ==
                               [t \in 1..Len(test_row) |->
                                   predictions[test_row[t] + 1]]
                           ranks == Ranks(predictions, test_scores,
                                          Len(predictions))
                           recip == [t \in 1..Len(ranks) |-> Frac(1, ranks[t])]
                       IN  [kind |-> "some",
                            value |-> FracDivInt(FracSum(recip), Len(ranks))]

\* mrr_score: the users are zipped over both matrices, the Some values are
\* collected in user order, and their sum is divided by their number
mrr_score(m, test_m, train_m) ==
    LET n == Min(Len(test_m.rows), Len(train_m.rows))
        per == [u \in 1..n |->
                   UserMrr(m, u - 1, test_m.rows[u], train_m.rows[u])]
        mrrs == SelectSeq(per, LAMBDA r : r.kind = "some")
    IN  IF \E u \in 1..n : per[u].kind = "panic" THEN [kind |-> "panic"]
        ELSE IF Len(mrrs) = 0 THEN [kind |-> "ok", value |-> NaN]
        ELSE [kind |-> "ok",
              value |-> FracDivInt(FracSum([k \in 1..Len(mrrs) |-> mrrs[k].value]),
                                   Len(mrrs))]

\* the call mrr_score(&model, &test, &train)
MrrScore ==
    /\ ~crashed
    /\ mrrResult = None
    /\ mrrResult' = Some(mrr_score(model, test, train))
    /\ crashed' = (mrr_score(model, test, train).kind = "panic")
    /\ UNCHANGED <<matVars, test, train, fitVars>>

\* interactions over the ids of a num_users x num_items matrix
Pairs(num_users, num_items) ==
    [user_id : 0..(num_users - 1), item_id : 0..(num_items - 1)]

\* train_test_split once rng.shuffle has put the data in the order `shuffled`:
\* test keeps the first k = (test_fraction * len) as usize records, split_off(k)
\* gives train the rest.  The result is (train, test).
train_test_split(shuffled, k) ==
    <<SubSeq(shuffled, k + 1, Len(shuffled)), SubSeq(shuffled, 1, k)>>

\* The evaluator's inputs: interactions in any order split at any point into
\* train and test, the matrices from_interactions builds of them (their ids
\* are ids of the matrix, so from_interactions returns), and a model
\* that is unfitted or holds tables of the matrices' dimensions.
InitMrr ==
    /\ IdleMat
    /\ \E s \in SeqsUpTo(Pairs(EvalUsers, EvalItems), MaxInteractions) :
         \E k \in 0..Len(s) :
           LET tr == from_interactions(EvalUsers, EvalItems, train_test_split(s, k)[1])
               te == from_interactions(EvalUsers, EvalItems, train_test_split(s, k)[2])
           IN  /\ tr.kind = "ok" /\ te.kind = "ok"
               /\ train = tr.matrix
               /\ test = te.matrix
    /\ mrrResult = None
    /\ \E m \in {None} \cup {Some(md) : md \in BuildModels(EvalUsers, EvalItems, EmbVals)} :
           IdleFitWith(m)
    /\ crashed = FALSE

SpecMrr == InitMrr /\ [][MrrScore]_vars

(* The reference the evaluator is compared with, stated over sets.         *)

RECURSIVE SetSum(_, _)
SetSum(f, S) ==
    IF S = {} THEN 0
    ELSE LET x == CHOOSE y \in S : TRUE IN f[x] + SetSum(f, S \ {x})

RECURSIVE Factorial(_)
Factorial(n) == IF n = 0 THEN 1 ELSE n * Factorial(n - 1)

\* raw score of item i for user u: item_bias[i] + dot(user row, item row)
RawScore(md, u, i) ==
    md.item_biases[i + 1] + md.user_embedding[u + 1] * md.item_embedding[i + 1]

\* rank of test item t: the catalog items whose score after suppression is >=
\* its score.  A suppressed item is below every real score and ties with the
\* other suppressed items.
RefRank(md, u, trainSet, t) ==
    Cardinality({i \in 0..(md.num_items - 1) :
                    \/ t \in trainSet
                    \/ i \notin trainSet /\ RawScore(md, u, i) >= RawScore(md, u, t)})

\* users with a non-empty test row
RefUsers(test_m) == {u \in 0..(test_m.num_users - 1) : test_m.rows[u + 1] # <<>>}

\* the reference MRR as <<numerator, denominator>> over common denominators:
\* F / rank is exact for rank <= num_items, F / |test row| likewise
RefMrr(md, test_m, train_m) ==
    LET F == Factorial(md.num_items)
        U == RefUsers(test_m)
        userNum == [u \in U |->
                      LET T == Range(test_m.rows[u + 1])
                          rr == [t \in T |->
                                   F \div RefRank(md, u, Range(train_m.rows[u + 1]), t)]
                      IN  SetSum(rr, T) * (F \div Cardinality(T))]
    IN  <<SetSum(userNum, U), F * F * Cardinality(U)>>

\* C6: for a fitted model and test/train matrices of its dimensions, with at
\* least one non-empty test row, mrr_score returns the reference value: train
\* items suppressed below every real score, rank = number of catalog items
\* scoring >= the test item (itself and ties included, so >= 1), the mean of
\* 1/rank per user, and the mean of those over exactly the users with a
\* non-empty test row.
C6_MrrEqualsReference ==
    (IsSome(mrrResult) /\ IsSome(model) /\ RefUsers(test) # {}) =>
        /\ Get(mrrResult).kind = "ok"
        /\ Get(mrrResult).value # NaN
        /\ LET ref == RefMrr(Get(model), test, train)
               got == Get(mrrResult).value
           IN  got[1] * ref[2] = ref[1] * got[2]
        /\ \A u \in RefUsers(test) : \A t \in Range(test.rows[u + 1]) :
               RefRank(Get(model), u, Range(train.rows[u + 1]), t) >= 1

\* evaluated: user 0's test item scores below its train item, which is
\* suppressed, and ties with nothing; user 1 has no test item
C6_Witness ==
    /\ IsSome(mrrResult) /\ IsSome(model)
    /\ test.rows = <<(<<0>>), (<<>>)>>
    /\ train.rows = <<(<<1>>), (<<>>)>>
    /\ RawScore(Get(model), 0, 1) > RawScore(Get(model), 0, 0)
    /\ Get(mrrResult).value = <<1, 1>>

-----------------------------------------------------------------------------
(* fit.                                                                    *)

\* rayon::current_num_threads(): the partitions of one fit call
NumThreads == 2
\* interactions handed to one fit call
MaxLen == 2
\* num_epochs of a fit call
MaxEpochs == 2
\* hyper.minibatch_size
MaxBatch == 2
\* user ids handed to predict are at most this
MaxPredictUser == 2

\* the records the interactions handed to fit are made of
FitPairs ==
    {[user_id |-> 0, item_id |-> 0], [user_id |-> 1, item_id |-> 0],
     [user_id |-> 0, item_id |-> 1]}

\* Table entries are not tracked by value in the specification of fit:
\* embedding_init's random draws and the values optimizer.step writes are the
\* one abstract value, and `written` tells the two apart.
FitVals == {0}

\* Classes of loss.value().scalar_sum(), the sum over the minibatch of
\* -sigmoid(score_diff): each term is in [-1, 0] or is NaN, so the sum is below
\* zero, zero (every sigmoid underflowed to 0) or NaN.
LossVals == {"neg", "zero", "nan"}

\* The classes a step's loss can take.  Tables as embedding_init drew them
\* hold values in [0, 1): every score is finite and every term is strictly
\* between -1 and 0.  Once optimizer.step has written them (by
\* learning_rate * gradient, learning_rate being any f32) the tables hold any
\* value; a sigmoid of 0 needs a negative that is not the positive, hence two
\* items in the range the negatives are sampled from.
StepLoss(c, w) ==
    IF ~w THEN {"neg"}
    ELSE IF c.num_items > 1 THEN LossVals
    ELSE LossVals \ {"zero"}

\* get_dimensions on a non-empty slice
get_dimensions(data) ==
    <<SetMax({data[i].user_id : i \in 1..Len(data)}) + 1,
      SetMax({data[i].item_id : i \in 1..Len(data)}) + 1>>

\* a plausible slip: the tables are rebuilt by every call
ModelRebuilt(m, md) == Some(md)

\* self.model after `if self.model.is_none() { self.model = Some(build_model) }`
ModelAfterFit(m, md) == IF m = None THEN Some(md) ELSE m

\* start and stop of a partition
ShardStart(c, partition_idx) == partition_idx * c.chunk_size
ShardStop(c, partition_idx) == ShardStart(c, partition_idx) + c.chunk_size

\* loss_value / (num_epochs * (stop - start)) as f32, by class: a positive
\* divisor keeps the class, 0.0 / 0.0 is NaN, x / 0.0 for x < 0 is -inf
ShardResult(loss_value, num_epochs, size) ==
    IF num_epochs * size = 0
    THEN (IF loss_value = "neg" THEN "ninf" ELSE "nan")
    ELSE loss_value

\* f32 addition of values that are <= 0 or NaN, by class
F32Add(a, b) ==
    IF a = "nan" \/ b = "nan" THEN "nan"
    ELSE IF a = "ninf" \/ b = "ninf" THEN "ninf"
    ELSE IF a = "neg" \/ b = "neg" THEN "neg"
    ELSE "zero"

\* losses.into_iter().sum(): collect keeps the partitions' order, the sum runs
\* over them from 0.0
RECURSIVE SumLosses(_, _)
SumLosses(ws, n) ==
    IF n = 0 THEN "zero" ELSE F32Add(SumLosses(ws, n - 1), ws[n - 1].result)

Partitions == 0..(NumThreads - 1)

\* the closure of a partition before its first epoch
NewWorker ==
    [pc |-> "running", epoch |-> 0, window |-> 0, loss_value |-> "zero",
     steps |-> <<>>, panic |-> "", result |-> "nan"]

\* fit(&mut self, interactions, num_epochs) up to the parallel map:
\* get_dimensions unwraps the max of an empty iterator and panics
FitCall(interactions, num_epochs) ==
    /\ ~crashed
    /\ call = None
    /\ firstCall' = IF firstCall = None
                    THEN Some([users |-> {interactions[i].user_id : i \in 1..Len(interactions)},
                               items |-> {interactions[i].item_id : i \in 1..Len(interactions)}])
                    ELSE firstCall
    /\ IF interactions = <<>>
       THEN /\ crashed' = TRUE
            /\ fitResult' = Some([kind |-> "panic", value |-> "nan", n |-> 0,
                                  chunk_size |-> 0,
                                  num_epochs |-> num_epochs, losses |-> <<>>])
            /\ UNCHANGED <<model, call, workers>>
       ELSE /\ crashed' = FALSE
            /\ fitResult' = None
            /\ \E md \in BuildModels(get_dimensions(interactions)[1],
                                     get_dimensions(interactions)[2], FitVals) :
                   model' = ModelAfterFit(model, md)
            /\ call' = Some([interactions |-> interactions,
                             num_epochs |-> num_epochs,
                             num_items |-> get_dimensions(interactions)[2],
                             chunk_size |-> Len(interactions) \div NumThreads,
                             warm |-> IsSome(model)])
            /\ workers' = [k \in Partitions |-> NewWorker]
    /\ predictRes' = None
    /\ UNCHANGED <<matVars, mrrVars, hyper, written>>

\* 0-based position of the first record of the window the worker is at
WindowLo(c, k, w) == ShardStart(c, k) + w.window * hyper.minibatch_size

\* the chunks iterator has a chunk of minibatch_size records left for the worker
HasFullChunk(c, k, w) ==
    WindowLo(c, k, w) + hyper.minibatch_size <= ShardStop(c, k)

\* the rows the step looks up are rows of the tables
InTables(md, uids, pids, nids) ==
    /\ \A u \in uids : u < Len(md.user_embedding)
    /\ \A i \in pids \cup nids : i < Len(md.item_embedding) /\ i < Len(md.item_biases)

\* One pass of the body of `for interaction in ...chunks(minibatch_size)`: the
\* buffers are filled from the window's records and with sampled negatives,
\* then forward / backward / optimizer.step run on the shared tables.  No lock
\* is taken.  Looking up a row a table does not have panics.  The pass ends
\* with the loop's test: when the next chunk is missing or short the epoch is
\* over and the next one starts at the shard's first window.
WorkerStep(k) ==
    /\ ~crashed /\ IsSome(call)
    /\ workers[k].pc = "running"
    /\ workers[k].epoch < Get(call).num_epochs
    /\ hyper.minibatch_size > 0
    /\ HasFullChunk(Get(call), k, workers[k])
    /\ LET c == Get(call)
           w == workers[k]
           lo == WindowLo(c, k, w)
           batch == [j \in 1..hyper.minibatch_size |-> c.interactions[lo + j]]
           uids == {batch[j].user_id : j \in 1..hyper.minibatch_size}
           pids == {batch[j].item_id : j \in 1..hyper.minibatch_size}
           more == lo + 2 * hyper.minibatch_size <= ShardStop(c, k)
       IN  \E negs \in [1..hyper.minibatch_size -> 0..(c.num_items - 1)] :
             IF InTables(Get(model), uids, pids, Range(negs))
             THEN /\ \E l \in StepLoss(c, written) :
                       workers' = [workers EXCEPT
                                ![k].loss_value = F32Add(@, l),
                                ![k].window = IF more THEN @ + 1 ELSE 0,
                                ![k].epoch = IF more THEN @ ELSE @ + 1,
                                ![k].steps = Append(@, [epoch |-> w.epoch, lo |-> lo])]
                  /\ written' = TRUE
             ELSE /\ workers' = [workers EXCEPT
                                ![k].pc = "panicked", ![k].panic = "index"]
                  /\ written' = written
    /\ UNCHANGED <<matVars, mrrVars, hyper, model, call, fitResult, firstCall,
                   predictRes, crashed>>

\* an epoch whose shard has no chunk of minibatch_size records: the inner loop
\* ends at once (no chunk, or break on the short one); chunks(0) panics
WorkerEpochEnd(k) ==
    /\ ~crashed /\ IsSome(call)
    /\ workers[k].pc = "running"
    /\ workers[k].epoch < Get(call).num_epochs
    /\ hyper.minibatch_size = 0 \/ ~HasFullChunk(Get(call), k, workers[k])
    /\ IF hyper.minibatch_size = 0
       THEN workers' = [workers EXCEPT ![k].pc = "panicked", ![k].panic = "chunks"]
       ELSE workers' = [workers EXCEPT ![k].epoch = @ + 1, ![k].window = 0]
    /\ UNCHANGED <<matVars, mrrVars, hyper, model, written, call, fitResult,
                   firstCall, predictRes, crashed>>

\* after the last epoch the closure returns its loss
WorkerFinish(k) ==
    /\ ~crashed /\ IsSome(call)
    /\ workers[k].pc = "running"
    /\ workers[k].epoch >= Get(call).num_epochs
    /\ workers' = [workers EXCEPT
                     ![k].pc = "done",
                     ![k].result = ShardResult(workers[k].loss_value,
                                               Get(call).num_epochs,
                                               ShardStop(Get(call), k)
                                                 - ShardStart(Get(call), k))]
    /\ UNCHANGED <<matVars, mrrVars, hyper, model, written, call, fitResult,
                   firstCall, predictRes, crashed>>

\* collect() has every partition's result, or a partition's panic is resumed
\* in the caller once the others have stopped.  fitResult keeps, beside the
\* outcome and the returned sum, what the call was made with (history).
FitReturn ==
    /\ ~crashed /\ IsSome(call)
    /\ \A k \in Partitions : workers[k].pc \in {"done", "panicked"}
    /\ crashed' = \E k \in Partitions : workers[k].pc = "panicked"
    /\ fitResult' =
           Some([kind |-> IF \E k \in Partitions : workers[k].pc = "panicked"
                          THEN "panic" ELSE "ok",
                 value |-> SumLosses(workers, NumThreads),
                 n |-> Len(Get(call).interactions),
                 chunk_size |-> Get(call).chunk_size,
                 num_epochs |-> Get(call).num_epochs,
                 losses |-> [k \in Partitions |-> workers[k].result]])
    /\ call' = None
    /\ workers' = [k \in Partitions |-> NewWorker]
    /\ UNCHANGED <<matVars, mrrVars, hyper, model, written, firstCall, predictRes>>

\* predict(&self, user_id), between fit calls
PredictCall(user_id) ==
    /\ ~crashed
    /\ call = None
    /\ predictRes' = Some([user |-> user_id, fitted |-> IsSome(firstCall),
                           outcome |-> Predict(model, user_id)])
    /\ crashed' = (Predict(model, user_id).kind = "panic")
    /\ fitResult' = None
    /\ UNCHANGED <<matVars, mrrVars, hyper, model, written, call, workers,
                   firstCall>>

InitFit ==
    /\ IdleMat /\ IdleMrr
    /\ hyper \in [minibatch_size : 0..MaxBatch]
    /\ model = None
    /\ written = FALSE
    /\ call = None
    /\ workers = [k \in Partitions |-> NewWorker]
    /\ fitResult = None
    /\ firstCall = None
    /\ predictRes = None
    /\ crashed = FALSE

NextFit ==
    \/ \E data \in SeqsUpTo(FitPairs, MaxLen), e \in 0..MaxEpochs :
           FitCall(data, e)
    \/ \E k \in Partitions : WorkerStep(k)
    \/ \E k \in Partitions : WorkerEpochEnd(k)
    \/ \E k \in Partitions : WorkerFinish(k)
    \/ FitReturn
    \/ \E u \in 0..MaxPredictUser : PredictCall(u)

SpecFit == InitFit /\ [][NextFit]_vars

\* ImplicitFactorizationModel::num_users and num_items
num_users(m) == IF m = None THEN None ELSE Some(Get(m).num_users)
num_items(m) == IF m = None THEN None ELSE Some(Get(m).num_items)

\* d is (the largest id of ids) + 1
IsMaxPlusOne(d, ids) == (d - 1) \in ids /\ \A i \in ids : i < d

\* C2: predict on a model on which no fit has succeeded returns the error
\* "Model must be fitted first." for every user id and creates no ModelData;
\* on a fitted model, for a user id below num_users, it returns a vector of
\* exactly num_items entries, num_items being (largest item id + 1) of the
\* first fit.
C2_Predict ==
    IsSome(predictRes) =>
        LET r == Get(predictRes) IN
        /\ ~r.fitted =>
              /\ r.outcome.kind = "err"
              /\ r.outcome.error = "Model must be fitted first."
              /\ model = None
        /\ (r.fitted /\ \E u \in Get(firstCall).users : r.user <= u) =>
              /\ r.outcome.kind = "ok"
              /\ IsMaxPlusOne(Len(r.outcome.scores), Get(firstCall).items)
              /\ num_items(model) = Some(Len(r.outcome.scores))

\* predict succeeded on a model with one user and two items
C2_Witness ==
    /\ IsSome(predictRes)
    /\ Get(predictRes).fitted
    /\ Get(predictRes).outcome.kind = "ok"
    /\ Len(Get(predictRes).outcome.scores) = 2
    /\ num_users(model) = Some(1)

\* C3 as stated: once a fit call has been made ModelData is present, created by
\* that first call and sized (max user id + 1, max item id + 1) of its
\* interactions, and stays so
C3_Original ==
    IsSome(firstCall) =>
        /\ IsSome(model)
        /\ IsMaxPlusOne(Get(model).num_users, Get(firstCall).users)
        /\ IsMaxPlusOne(Get(model).num_items, Get(firstCall).items)

\* C3 (amended): ModelData is present exactly when a first fit call with a
\* non-empty interaction sequence has been made (a first call with an empty
\* sequence creates nothing); from then on, through every later fit call, it
\* is sized (max user id + 1, max item id + 1) of that first call's
\* interactions, its three tables have num_users, num_items and num_items rows,
\* and num_users() and num_items() return those sizes.
C3_Amended ==
    /\ IsSome(model) <=> (IsSome(firstCall) /\ Get(firstCall).users # {})
    /\ IsSome(model) =>
          /\ IsMaxPlusOne(Get(num_users(model)), Get(firstCall).users)
          /\ IsMaxPlusOne(Get(num_items(model)), Get(firstCall).items)
          /\ Len(Get(model).user_embedding) = Get(model).num_users
          /\ Len(Get(model).item_embedding) = Get(model).num_items
          /\ Len(Get(model).item_biases) = Get(model).num_items
    /\ (IsSome(firstCall) /\ Get(firstCall).users = {}) =>
          num_users(model) = None /\ num_items(model) = None

\* a later fit call, with larger ids than the first call's, is in progress on
\* the tables of the first call
C3_Witness ==
    /\ IsSome(call)
    /\ Get(call).warm
    /\ get_dimensions(Get(call).interactions) = <<2, 2>>
    /\ num_users(model) = Some(1) /\ num_items(model) = Some(1)
    /\ \E k \in Partitions : workers[k].pc = "done"

-----------------------------------------------------------------------------
(* Error handling and the shards of fit.                                   *)

\* C4: fit called with an empty interaction sequence returns the declared
\* EmptyInput error to the caller and does not crash the program.
C4_EmptyInputIsDeclared ==
    (IsSome(fitResult) /\ Get(fitResult).n = 0) =>
        /\ Get(fitResult).kind = "err"
        /\ ~crashed

\* the ids of the call in progress that the tables of the model do not hold
OutOfBounds(c, md) ==
    \E i \in 1..Len(c.interactions) :
        \/ c.interactions[i].user_id >= md.num_users
        \/ c.interactions[i].item_id >= md.num_items

\* C5: on a warm model a fit call with a user or item id at or beyond the
\* allocated bounds is refused with the declared InvalidIndex error: no such
\* call gets to its training steps, and no training step ever looks up a row
\* (by user id, positive item id or sampled negative item id) that a table
\* does not have.
C5_InvalidIndexIsDeclared ==
    /\ IsSome(call) => ~OutOfBounds(Get(call), Get(model))
    /\ \A k \in Partitions : workers[k].panic # "index"

\* the steps partition k performs when it runs all its epochs: in each epoch
\* one step per whole window of minibatch_size records of its shard, in order
ExpectedSteps(c, k) ==
    LET q == c.chunk_size \div hyper.minibatch_size
    IN  [i \in 1..(c.num_epochs * q) |->
            [epoch |-> (i - 1) \div q,
             lo |-> k * c.chunk_size + ((i - 1) % q) * hyper.minibatch_size]]

\* every step so far took minibatch_size consecutive records of the worker's
\* own shard [k * chunk_size, (k + 1) * chunk_size)
StepsInOwnShard(c, k) ==
    \A i \in 1..Len(workers[k].steps) :
        /\ k * c.chunk_size <= workers[k].steps[i].lo
        /\ workers[k].steps[i].lo + hyper.minibatch_size <= (k + 1) * c.chunk_size

AllStopped == \A k \in Partitions : workers[k].pc \in {"done", "panicked"}

\* C8: with minibatch_size m > 0 and shard_size = floor(n / P), worker k only
\* takes records of [k * shard_size, (k + 1) * shard_size), and when the
\* workers have stopped each has performed, in every epoch, exactly
\* floor(shard_size / m) steps on consecutive windows of m records of its
\* shard: the records from P * shard_size on and each shard's trailing
\* remainder are in no step.
C8_Shards ==
    (IsSome(call) /\ hyper.minibatch_size > 0) =>
        /\ \A k \in Partitions : StepsInOwnShard(Get(call), k)
        /\ AllStopped =>
              \A k \in Partitions : workers[k].steps = ExpectedSteps(Get(call), k)

\* C8 for the workers that ran all their epochs
C8_ShardsOfFinishedWorkers ==
    (IsSome(call) /\ hyper.minibatch_size > 0) =>
        \A k \in Partitions :
            /\ StepsInOwnShard(Get(call), k)
            /\ workers[k].pc = "done" => workers[k].steps = ExpectedSteps(Get(call), k)
            /\ \E j \in 0..Len(ExpectedSteps(Get(call), k)) :
                   workers[k].steps = SubSeq(ExpectedSteps(Get(call), k), 1, j)

\* C9: when shard_size is zero each shard's result is zero loss, not the
\* quotient by num_epochs * shard_size = 0, and the aggregate fit returns is
\* not NaN.
C9_ZeroShardIsGuarded ==
    /\ (IsSome(call) /\ Get(call).chunk_size = 0) =>
           \A k \in Partitions :
               workers[k].pc = "done" => workers[k].result = "zero"
    /\ (IsSome(fitResult) /\ Get(fitResult).n > 0
            /\ Get(fitResult).chunk_size = 0 /\ Get(fitResult).num_epochs > 0) =>
           Get(fitResult).value # "nan"

\* the next thing partition k does
WorkerMove(k) == WorkerStep(k) \/ WorkerEpochEnd(k) \/ WorkerFinish(k)

\* the sum of the shard results taken from the last partition to the first
RECURSIVE SumReversed(_, _)
SumReversed(losses, k) ==
    IF k = NumThreads THEN "zero"
    ELSE F32Add(SumReversed(losses, k + 1), losses[k])

\* C10: for a non-empty interaction sequence, num_epochs > 0 and
\* minibatch_size > 0, fit runs to completion whatever the interleaving: a
\* running worker can always take its next step (it waits for no lock and no
\* other worker), every worker stops by finishing its
\* num_epochs * floor(shard_size / minibatch_size) steps, and fit returns the
\* sum of the shard results, which does not depend on the order of the shards.
C10_RunsToCompletion ==
    /\ (IsSome(call) /\ Get(call).num_epochs > 0 /\ hyper.minibatch_size > 0) =>
           \A k \in Partitions :
               /\ workers[k].pc = "running" => ENABLED WorkerMove(k)
               /\ workers[k].pc # "panicked"
               /\ workers[k].pc = "done" =>
                      Len(workers[k].steps) =
                          Get(call).num_epochs
                            * (Get(call).chunk_size \div hyper.minibatch_size)
           /\ AllStopped => ENABLED FitReturn
    /\ (IsSome(fitResult) /\ Get(fitResult).n > 0
            /\ Get(fitResult).num_epochs > 0 /\ hyper.minibatch_size > 0) =>
           /\ Get(fitResult).kind = "ok"
           /\ Get(fitResult).value = SumReversed(Get(fitResult).losses, 0)

\* C10 for the calls whose ids the tables hold: the same, and every such call
\* returns
InBoundsCall ==
    /\ IsSome(call) /\ Get(call).num_epochs > 0 /\ hyper.minibatch_size > 0
    /\ \A i \in 1..Len(Get(call).interactions) :
           /\ Get(call).interactions[i].user_id < Get(model).num_users
           /\ Get(call).interactions[i].item_id < Get(model).num_items

C10_InBoundsSafety ==
    /\ InBoundsCall =>
           \A k \in Partitions :
               /\ workers[k].pc = "running" => ENABLED WorkerMove(k)
               /\ workers[k].pc # "panicked"
    /\ (IsSome(fitResult) /\ Get(fitResult).kind = "ok") =>
           Get(fitResult).value = SumReversed(Get(fitResult).losses, 0)

\* rayon runs every partition's closure: a worker that can move does move, and
\* the caller resumes once the partitions have stopped
FairSpecFit ==
    /\ SpecFit
    /\ \A k \in Partitions : WF_vars(WorkerMove(k))
    /\ WF_vars(FitReturn)

C10_InBoundsReturns ==
    InBoundsCall ~> (call = None /\ IsSome(fitResult) /\ Get(fitResult).kind = "ok")

-----------------------------------------------------------------------------
(* The evaluator on a model that was never trained.                        *)

\* the scenario's interactions: 4 users, 5 items
ScenarioTrain ==
    <<[user_id |-> 0, item_id |-> 0], [user_id |-> 0, item_id |-> 1],
      [user_id |-> 1, item_id |-> 2]>>

ScenarioTest ==
    <<[user_id |-> 0, item_id |-> 2], [user_id |-> 1, item_id |-> 0]>>

\* the scenario's matrices, and a model that is as ImplicitFactorizationModel::
\* new leaves it (no tables) or holds tables of the matrices' dimensions
InitScenario ==
    /\ IdleMat
    /\ from_interactions(4, 5, ScenarioTrain).kind = "ok"
    /\ from_interactions(4, 5, ScenarioTest).kind = "ok"
    /\ train = from_interactions(4, 5, ScenarioTrain).matrix
    /\ test = from_interactions(4, 5, ScenarioTest).matrix
    /\ mrrResult = None
    /\ \E m \in {None} \cup {Some(md) : md \in BuildModels(4, 5, EmbVals)} :
           IdleFitWith(m)
    /\ crashed = FALSE

SpecScenario == InitScenario /\ [][MrrScore]_vars

\* C7: in the scenario of 4 users and 5 items, mrr_score called on a model no
\* training was performed on executes without error and returns a value in
\* [0, 1].
C7_UntrainedScenario ==
    (IsSome(mrrResult) /\ model = None) =>
        /\ ~crashed
        /\ Get(mrrResult).kind = "ok"
        /\ Get(mrrResult).value[2] > 0
        /\ 0 <= Get(mrrResult).value[1]
        /\ Get(mrrResult).value[1] <= Get(mrrResult).value[2]

\* C7 with tables present: the value is in [0, 1] and is the mean over users
\* 0 and 1 alone
C7_TrainedScenario ==
    (IsSome(mrrResult) /\ IsSome(model)) =>
        /\ ~crashed
        /\ Get(mrrResult).kind = "ok"
        /\ Get(mrrResult).value[2] > 0
        /\ 0 <= Get(mrrResult).value[1]
        /\ Get(mrrResult).value[1] <= Get(mrrResult).value[2]
        /\ RefUsers(test) = {0, 1}
        /\ LET ref == RefMrr(Get(model), test, train)
               got == Get(mrrResult).value
           IN  got[1] * ref[2] = ref[1] * got[2]

====
